---- MODULE Spec2Model ----
(***************************************************************************)
(* AllVideoSaver (src/AllVideoSaverTemp/app.py): a Flask backend with two  *)
(* JSON endpoints, /api/fetch-info and /api/download, over the yt_dlp      *)
(* extraction library, and a fire-and-forget cleanup thread per download.  *)
(*                                                                         *)
(* Python strings that the code takes apart or builds (urls, titles,       *)
(* quality tokens, quality labels, download names) are sequences of        *)
(* one-character strings.  Literals the code only passes on (format        *)
(* selector expressions, MIME types, error messages) are TLA+ strings.     *)
(***************************************************************************)
EXTENDS Integers, Sequences, FiniteSets, TLC

\* ------------------------------------------------------------------ bounds
\* Requests the server handles in one behaviour (each on its own thread).
MaxRequests == 2
\* Longest formats list handed to get_available_formats.
MaxFormats == 4
\* Seconds of wall-clock time that pass in one Tick.
TickSeconds == 60

\* ------------------------------------------------------- program constants
\* delayed_cleanup(downloaded_file, delay=60)
Delay == 60
\* return filename[:100]
MaxNameLen == 100

\* Python's None, for the optional integer fields of a format.
None == -1

Min(a, b) == IF a <= b THEN a ELSE b
Max(a, b) == IF a >= b THEN a ELSE b

Rep(c, n) == [i \in 1..n |-> c]

\* ---------------------------------------------------------------- strings
\* str.replace(old, new) for one-character strings old and new.
Replace(s, old, new) == [i \in 1..Len(s) |-> IF s[i] = old THEN new ELSE s[i]]

\* str.replace(old, '') for a one-character string old.
Remove(s, old) == SelectSeq(s, LAMBDA c : c # old)

\* str.strip(): leading and trailing whitespace removed.
RECURSIVE LStrip(_)
LStrip(s) == IF s # <<>> /\ Head(s) = " " THEN LStrip(Tail(s)) ELSE s

RECURSIVE RStrip(_)
RStrip(s) ==
    IF s # <<>> /\ s[Len(s)] = " " THEN RStrip(SubSeq(s, 1, Len(s) - 1)) ELSE s

\* Faulty variant: the url is used as sent, not stripped.
NoStrip(s) == s

Strip(s) == RStrip(LStrip(s))

Digits == <<"0", "1", "2", "3", "4", "5", "6", "7", "8", "9">>

\* str(n) of a non-negative integer, as the f-string f"{n}" writes it.
RECURSIVE IntToStr(_)
IntToStr(n) ==
    IF n < 10 THEN <<Digits[n + 1]>>
    ELSE IntToStr(n \div 10) \o <<Digits[(n % 10) + 1]>>

DigitVal(c) == (CHOOSE i \in 1..10 : Digits[i] = c) - 1

\* int(s) of a string of decimal digits.
RECURSIVE StrToInt(_)
StrToInt(s) ==
    IF s = <<>> THEN 0
    ELSE 10 * StrToInt(SubSeq(s, 1, Len(s) - 1)) + DigitVal(s[Len(s)])

\* ------------------------------------------------------- sanitize_filename
InvalidChars == <<"<", ">", ":", "\"", "/", "\\", "|", "?", "*">>

RECURSIVE ReplaceAll(_, _)
ReplaceAll(s, chars) ==
    IF chars = <<>> THEN s
    ELSE ReplaceAll(Replace(s, Head(chars), "_"), Tail(chars))

sanitize_filename(filename) ==
    LET r == ReplaceAll(filename, InvalidChars)
    IN  SubSeq(r, 1, Min(Len(r), MaxNameLen))

\* --------------------------------------------------- get_available_formats
\* fmt.get('height') is truthy: neither missing/None nor 0.
Truthy(h) == h # None /\ h # 0

FormatEntry(fmt) ==
    [quality |-> IntToStr(fmt.height) \o <<"p">>,
     format_note |-> fmt.format_note,
     ext |-> fmt.ext,
     filesize |-> fmt.filesize]

\* The first loop: one entry per format with a height, in input order.
RECURSIVE WithHeight(_)
WithHeight(fs) ==
    IF fs = <<>> THEN <<>>
    ELSE (IF Truthy(Head(fs).height) THEN <<FormatEntry(Head(fs))>> ELSE <<>>)
         \o WithHeight(Tail(fs))

\* The second loop: the first entry of every quality label.
RECURSIVE Unique(_, _)
Unique(entries, seen) ==
    IF entries = <<>> THEN <<>>
    ELSE IF Head(entries).quality \in seen THEN Unique(Tail(entries), seen)
    ELSE <<Head(entries)>> \o Unique(Tail(entries), seen \cup {Head(entries).quality})

\* key=lambda x: int(x['quality'].replace('p', ''))
SortKey(e) == StrToInt(Remove(e.quality, "p"))

\* One insertion of sorted(..., reverse=True): e goes behind every element
\* whose key is at least its own (the sort is stable).
RECURSIVE InsertDesc(_, _)
InsertDesc(sorted, e) ==
    IF sorted = <<>> THEN <<e>>
    ELSE IF SortKey(Head(sorted)) >= SortKey(e)
         THEN <<Head(sorted)>> \o InsertDesc(Tail(sorted), e)
         ELSE <<e>> \o sorted

\* Faulty variant: the sort without reverse=True.
RECURSIVE InsertAsc(_, _)
InsertAsc(sorted, e) ==
    IF sorted = <<>> THEN <<e>>
    ELSE IF SortKey(Head(sorted)) <= SortKey(e)
         THEN <<Head(sorted)>> \o InsertAsc(Tail(sorted), e)
         ELSE <<e>> \o sorted

RECURSIVE SortAscFrom(_, _)
SortAscFrom(entries, acc) ==
    IF entries = <<>> THEN acc
    ELSE SortAscFrom(Tail(entries), InsertAsc(acc, Head(entries)))

RECURSIVE SortDescFrom(_, _)
SortDescFrom(entries, acc) ==
    IF entries = <<>> THEN acc
    ELSE SortDescFrom(Tail(entries), InsertDesc(acc, Head(entries)))

SortedAscending(entries) == SortAscFrom(entries, <<>>)

\* sorted(unique_formats, key=..., reverse=True)
SortedDescending(entries) == SortDescFrom(entries, <<>>)

\* info is the extraction metadata: hasFormats says whether it has the key.
get_available_formats(info) ==
    LET formats == IF info.hasFormats THEN WithHeight(info.formats) ELSE <<>>
    IN  SortedDescending(Unique(formats, {}))

\* ----------------------------------------------------- get_format_selector
QAudio == <<"a", "u", "d", "i", "o">>
Q360 == <<"3", "6", "0">>
Q720 == <<"7", "2", "0">>
Q1080 == <<"1", "0", "8", "0">>

\* Faulty variant: the '720' branch is missing.
SelectorDefaultCombined(quality) ==
    IF quality = QAudio THEN "bestaudio/best"
    ELSE IF quality = Q360 THEN "best[height<=360]/best"
    ELSE IF quality = Q1080 THEN "best[height<=1080]/best"
    ELSE "bestvideo+bestaudio/best"

get_format_selector(quality) ==
    IF quality = QAudio THEN "bestaudio/best"
    ELSE IF quality = Q360 THEN "best[height<=360]/best"
    ELSE IF quality = Q720 THEN "best[height<=720]/best"
    ELSE IF quality = Q1080 THEN "best[height<=1080]/best"
    ELSE "bestvideo+bestaudio/best"

\* ------------------------------------------------------------- the server
VARIABLES
    req,      \* req[j]: the request thread j, its request and its response
    cl,       \* cl[j]: the cleanup thread download j started, if any
    fs,       \* the files in DOWNLOAD_FOLDER
    nreq,     \* requests received so far
    uuids,    \* uuid4 tokens issued so far
    fin,      \* get_available_formats under test: its argument,
    fout,     \*   its result,
    fpc       \*   and whether it has run

vars == <<req, cl, fs, nreq, uuids, fin, fout, fpc>>

Requests == 1..MaxRequests

QOther == <<"h", "d", "/", "4", "k">>
Qualities == {QAudio, Q360, Q720, Q1080, QOther}

Urls == {<<>>, <<" ", " ">>, <<" ", "u", " ">>}

\* request.get_json(): None, or the parsed object with the keys it carries.
NoData == [present |-> FALSE, keys |-> {}, url |-> <<>>, quality |-> <<>>]

FetchBodies ==
    {NoData}
    \cup {[present |-> TRUE, keys |-> k, url |-> <<>>, quality |-> <<>>] : k \in {{}, {"quality"}}}
    \cup {[present |-> TRUE, keys |-> {"url"}, url |-> u, quality |-> <<>>] : u \in Urls}

DownloadBodies ==
    FetchBodies
    \cup {[present |-> TRUE, keys |-> {"url", "quality"}, url |-> <<" ", "u", " ">>, quality |-> q] :
            q \in Qualities}

TitleLong == <<"a", ":">> \o Rep("x", MaxNameLen)
UnknownTitle == <<"U", "n", "k", "n", "o", "w", "n", " ", "T", "i", "t", "l", "e">>

Fmt(h, note) == [height |-> h, format_note |-> note, ext |-> "mp4", filesize |-> None]

\* What extract_info(url, download=False) can return to fetch-info.
FetchInfos ==
    {[hasTitle |-> TRUE, title |-> TitleLong, hasFormats |-> FALSE, formats |-> <<>>],
     [hasTitle |-> FALSE, title |-> <<>>, hasFormats |-> TRUE,
      formats |-> <<Fmt(144, "a"), Fmt(720, "a"), Fmt(720, "b"), Fmt(1080, "a")>>]}

\* How extract_info(url, download=True) can end: with the metadata of one
\* video, with that of a playlist (which has no 'ext' and need not have a
\* 'title'), or by raising, before or after it wrote a file.
Outcomes == {"video", "playlist", "playlist_untitled", "fail_clean", "fail_dirty"}

DownloadInfo(outcome, audio) ==
    [hasTitle |-> outcome # "playlist_untitled",
     title |-> IF outcome # "playlist_untitled" THEN TitleLong ELSE <<>>,
     hasExt |-> outcome = "video",
     ext |-> IF outcome # "video" THEN "" ELSE IF audio THEN "m4a" ELSE "mp4"]

\* Faulty variant: a file name without the token.
TempFilenameFixed(token) == <<"allvideosaver_", 0>>

\* filename = f"allvideosaver_{uuid.uuid4().hex}"; uuid4 gives a token that
\* was never issued before.
TempFilename(token) == <<"allvideosaver_", token>>

\* filepath = os.path.join(DOWNLOAD_FOLDER, filename)
FilePath(filename) == [dir |-> "D:\\AllVideoSaverTemp", name |-> filename, ext |-> ""]

\* 'outtmpl': filepath + '.%(ext)s', filled in with an extension.
WithExt(path, ext) == [path EXCEPT !.ext = ext]

\* ydl.prepare_filename(info): a field the metadata lacks is written NA.
PrepareFilename(filepath, info) ==
    WithExt(filepath, IF info.hasExt THEN info.ext ELSE "NA")

NoPath == [dir |-> "", name |-> <<>>, ext |-> ""]

NoVideo == [title |-> <<>>, formats |-> <<>>]

IdleReq ==
    [endpoint |-> "none", body |-> NoData, pc |-> "idle", token |-> 0,
     selector |-> "", postproc |-> FALSE, calls |-> 0, extracted |-> FALSE,
     raised |-> FALSE, exc |-> "", status |-> 0, error |-> "", video |-> NoVideo,
     name |-> <<>>, mime |-> "", served |-> NoPath, written |-> {},
     transmitted |-> FALSE]

IdleCleanup ==
    [pc |-> "none", path |-> NoPath, scheduled |-> 0, remaining |-> 0,
     attempts |-> 0, removed |-> FALSE, warnings |-> 0]

\* return jsonify({'error': msg}), 400
BadRequest(r, msg) == [r EXCEPT !.status = 400, !.error = msg, !.pc = "done"]

\* Faulty variant: the except clause without the 500.
CaughtAsOk(r, e) == [r EXCEPT !.status = 200, !.error = e, !.pc = "done"]

\* except Exception as e: return jsonify({'error': str(e)}), 500
Caught(r, e) == [r EXCEPT !.status = 500, !.error = e, !.pc = "done"]

Raise(r, e) == Caught([r EXCEPT !.raised = TRUE, !.exc = e], e)

\* data.get('quality', '720')
QualityOf(data) == IF "quality" \in data.keys THEN data.quality ELSE Q720

\* if not data or 'url' not in data
NoUrl(data) == ~data.present \/ data.keys = {} \/ "url" \notin data.keys

TypeOK ==
    /\ nreq \in 0..MaxRequests
    /\ uuids \in 0..MaxRequests
    /\ \A j \in Requests :
        /\ req[j].pc \in {"idle", "extracting", "sending", "done"}
        /\ req[j].status \in {0, 200, 400, 500}
        /\ cl[j].pc \in {"none", "sleeping", "done"}
        /\ cl[j].remaining \in 0..Delay

Init ==
    /\ req = [j \in Requests |-> IdleReq]
    /\ cl = [j \in Requests |-> IdleCleanup]
    /\ fs = {}
    /\ nreq = 0
    /\ uuids = 0
    /\ fin = [hasFormats |-> FALSE, formats |-> <<>>]
    /\ fout = <<>>
    /\ fpc = "idle"

\* POST /api/fetch-info, from the request to the response.
FetchInfo(j) ==
    /\ j = nreq + 1
    /\ nreq' = j
    /\ \E data \in FetchBodies :
        LET r == [req[j] EXCEPT !.endpoint = "fetch", !.body = data] IN
        IF NoUrl(data) THEN req' = [req EXCEPT ![j] = BadRequest(r, "No URL provided")]
        ELSE IF Strip(data.url) = <<>>
        THEN req' = [req EXCEPT ![j] = BadRequest(r, "Empty URL provided")]
        ELSE LET c == [r EXCEPT !.calls = @ + 1] IN
             \/ req' = [req EXCEPT ![j] = Raise(c, "DownloadError")]
             \/ \E info \in FetchInfos :
                  req' = [req EXCEPT ![j] =
                      [c EXCEPT !.extracted = TRUE, !.status = 200, !.pc = "done",
                                !.transmitted = TRUE,
                                !.video = [title |-> IF info.hasTitle THEN info.title
                                                     ELSE UnknownTitle,
                                           formats |-> get_available_formats(info)]]]
    /\ UNCHANGED <<cl, fs, uuids, fin, fout, fpc>>

\* POST /api/download, up to the call of the extraction library.
Download(j) ==
    /\ j = nreq + 1
    /\ nreq' = j
    /\ \E data \in DownloadBodies :
        LET r == [req[j] EXCEPT !.endpoint = "download", !.body = data] IN
        IF NoUrl(data)
        THEN /\ req' = [req EXCEPT ![j] = BadRequest(r, "No URL provided")]
             /\ UNCHANGED uuids
        ELSE IF Strip(data.url) = <<>>
        THEN /\ req' = [req EXCEPT ![j] = BadRequest(r, "Empty URL provided")]
             /\ UNCHANGED uuids
        ELSE /\ uuids' = uuids + 1
             /\ req' = [req EXCEPT ![j] =
                    [r EXCEPT !.token = uuids + 1,
                              !.selector = get_format_selector(QualityOf(data)),
                              !.postproc = (QualityOf(data) = QAudio),
                              !.pc = "extracting"]]
    /\ UNCHANGED <<cl, fs, fin, fout, fpc>>

\* delayed_cleanup(path, delay): the thread is started and sleeps.
Scheduled(c, path) ==
    [c EXCEPT !.pc = "sleeping", !.path = path, !.scheduled = @ + 1, !.remaining = Delay]

\* send_file(downloaded_file, as_attachment=True, download_name=...,
\* mimetype=...): the file is opened and the 200 response handed to the
\* server; a path that is no file raises.
send_file(r, path, download_name, mime, files) ==
    IF path \in files
    THEN [r EXCEPT !.status = 200, !.served = path, !.name = download_name,
                   !.mime = mime, !.pc = "sending"]
    ELSE Raise(r, "FileNotFoundError")

\* The try block of download_video: extract_info, prepare_filename, the
\* download name, the start of the cleanup thread, send_file; and the
\* except clause.
Extract(j) ==
    /\ req[j].pc = "extracting"
    /\ \E outcome \in Outcomes :
        LET r == [req[j] EXCEPT !.calls = @ + 1]
            quality == QualityOf(r.body)
            audio == quality = QAudio
            filepath == FilePath(TempFilename(r.token))
            info == DownloadInfo(outcome, audio)
            produced == WithExt(filepath, IF r.postproc THEN "mp3" ELSE "mp4")
            prepared == PrepareFilename(filepath, info)
            downloaded_file == IF audio THEN WithExt(prepared, "mp3") ELSE prepared
            download_name ==
                IF audio THEN sanitize_filename(info.title) \o <<".", "m", "p", "3">>
                ELSE sanitize_filename(info.title) \o <<"_">> \o quality
                     \o <<"p", ".", "m", "p", "4">>
            mime == IF ~audio THEN "video/mp4" ELSE "audio/mpeg"
        IN
        IF outcome = "fail_clean"
        THEN /\ req' = [req EXCEPT ![j] = Raise(r, "DownloadError")]
             /\ UNCHANGED <<cl, fs>>
        ELSE IF outcome = "fail_dirty"
        THEN /\ fs' = fs \cup {WithExt(filepath, "part")}
             /\ req' = [req EXCEPT ![j] =
                    Raise([r EXCEPT !.written = @ \cup {WithExt(filepath, "part")}],
                          "DownloadError")]
             /\ UNCHANGED cl
        ELSE /\ fs' = fs \cup {produced}
             /\ IF ~info.hasTitle
                THEN /\ req' = [req EXCEPT ![j] =
                            Raise([r EXCEPT !.extracted = TRUE, !.written = @ \cup {produced}],
                                  "KeyError")]
                     /\ UNCHANGED cl
                ELSE /\ cl' = [cl EXCEPT ![j] = Scheduled(cl[j], downloaded_file)]
                     /\ req' = [req EXCEPT ![j] =
                            send_file([r EXCEPT !.extracted = TRUE,
                                                !.written = @ \cup {produced}],
                                      downloaded_file, download_name, mime, fs')]
    /\ UNCHANGED <<nreq, uuids, fin, fout, fpc>>

\* The server has written the last byte of the file to the client.  Nothing
\* forces the step: a client may read slowly, or never to the end.
Transmit(j) ==
    /\ req[j].pc = "sending"
    /\ req' = [req EXCEPT ![j] = [@ EXCEPT !.pc = "done", !.transmitted = TRUE]]
    /\ UNCHANGED <<cl, fs, nreq, uuids, fin, fout, fpc>>

\* Time passes for every thread inside time.sleep(delay).
Tick ==
    /\ \E j \in Requests : cl[j].pc = "sleeping" /\ cl[j].remaining > 0
    /\ cl' = [j \in Requests |->
                IF cl[j].pc = "sleeping"
                THEN [cl[j] EXCEPT !.remaining = Max(0, @ - TickSeconds)]
                ELSE cl[j]]
    /\ UNCHANGED <<req, fs, nreq, uuids, fin, fout, fpc>>

\* Faulty variant: a cleanup thread that retries a failed removal.
CleanupRetry(j) ==
    /\ cl[j].pc = "sleeping"
    /\ cl[j].remaining = 0
    /\ IF cl[j].path \in fs
       THEN \/ /\ fs' = fs \ {cl[j].path}
               /\ cl' = [cl EXCEPT ![j] =
                      [@ EXCEPT !.attempts = @ + 1, !.removed = TRUE, !.pc = "done"]]
            \/ /\ cl' = [cl EXCEPT ![j] = [@ EXCEPT !.attempts = @ + 1, !.warnings = 1]]
               /\ UNCHANGED fs
       ELSE /\ cl' = [cl EXCEPT ![j] = [@ EXCEPT !.pc = "done"]]
            /\ UNCHANGED fs
    /\ UNCHANGED <<req, nreq, uuids, fin, fout, fpc>>

\* _cleanup after the sleep: os.remove if the path exists; os.remove succeeds
\* or raises (the file is locked or not removable), and the except clause
\* logs a warning.
Cleanup(j) ==
    /\ cl[j].pc = "sleeping"
    /\ cl[j].remaining = 0
    /\ IF cl[j].path \in fs
       THEN \/ /\ fs' = fs \ {cl[j].path}
               /\ cl' = [cl EXCEPT ![j] =
                      [@ EXCEPT !.attempts = @ + 1, !.removed = TRUE, !.pc = "done"]]
            \/ /\ cl' = [cl EXCEPT ![j] =
                      [@ EXCEPT !.attempts = @ + 1, !.warnings = @ + 1, !.pc = "done"]]
               /\ UNCHANGED fs
       ELSE /\ cl' = [cl EXCEPT ![j] = [@ EXCEPT !.pc = "done"]]
            /\ UNCHANGED fs
    /\ UNCHANGED <<req, nreq, uuids, fin, fout, fpc>>

Next ==
    \/ \E j \in Requests : FetchInfo(j)
    \/ \E j \in Requests : Download(j)
    \/ \E j \in Requests : Extract(j)
    \/ \E j \in Requests : Transmit(j)
    \/ \E j \in Requests : Cleanup(j)
    \/ Tick

Spec == Init /\ [][Next]_vars

\* -------------------------------------- get_available_formats on its own
Heights == {None, 0, 144, 720, 1080}
Notes == {"a", "b"}

FormatLists ==
    UNION {[1..n -> {Fmt(h, note) : h \in Heights, note \in Notes}] : n \in 0..MaxFormats}

InitFormats ==
    /\ req = [j \in Requests |-> IdleReq]
    /\ cl = [j \in Requests |-> IdleCleanup]
    /\ fs = {}
    /\ nreq = 0
    /\ uuids = 0
    /\ fin \in {[hasFormats |-> FALSE, formats |-> <<>>]}
              \cup {[hasFormats |-> TRUE, formats |-> l] : l \in FormatLists}
    /\ fout = <<>>
    /\ fpc = "idle"

ListFormats ==
    /\ fpc = "idle"
    /\ fout' = get_available_formats(fin)
    /\ fpc' = "done"
    /\ UNCHANGED <<req, cl, fs, nreq, uuids, fin>>

NextFormats == ListFormats

SpecFormats == InitFormats /\ [][NextFormats]_vars

\* ------------------------------------------------------------------ claims
Downloads == {j \in Requests : req[j].endpoint = "download"}
Received == {j \in Requests : req[j].endpoint # "none"}

BlankUrl(data) == \A i \in 1..Len(data.url) : data.url[i] = " "
Rejected(data) == ~data.present \/ "url" \notin data.keys \/ BlankUrl(data)

\* C1: a fetch-info or download request whose body is missing, has no 'url'
\* key, or has a url that is empty after stripping is answered 400 with an
\* error message, and for it extract_info is never called, no temp file name
\* is generated and no cleanup thread is started.
C1_BadUrlRejected ==
    \A j \in Received :
        Rejected(req[j].body) =>
            /\ req[j].pc = "done"
            /\ req[j].status = 400
            /\ req[j].error # ""
            /\ req[j].calls = 0
            /\ req[j].token = 0
            /\ req[j].written = {}
            /\ cl[j].scheduled = 0
            /\ cl[j].pc = "none"

\* A fetch-info with a whitespace-only url and a download with no body, both
\* answered 400.
C1_Witness ==
    \E j, k \in Requests :
        /\ req[j].endpoint = "fetch" /\ "url" \in req[j].body.keys
        /\ req[j].body.url = <<" ", " ">> /\ req[j].status = 400
        /\ req[k].endpoint = "download" /\ ~req[k].body.present /\ req[k].status = 400

\* C2: a request in which extraction, download or the hand-off of the file
\* raised is answered 500 with the exception's message as 'error', and never
\* 200.
C2_FailuresAnswered500 ==
    \A j \in Received :
        req[j].raised =>
            /\ req[j].pc = "done"
            /\ req[j].status = 500
            /\ req[j].exc # ""
            /\ req[j].error = req[j].exc
            /\ ~req[j].transmitted

\* A download whose send_file raised and a fetch-info whose extraction raised.
C2_Witness ==
    \E j, k \in Requests :
        /\ req[j].endpoint = "download" /\ req[j].exc = "FileNotFoundError"
        /\ req[j].status = 500
        /\ req[k].endpoint = "fetch" /\ req[k].exc = "DownloadError" /\ req[k].status = 500

\* C3: the cleanup thread never removes the file of a download before that
\* download's response has been completely transmitted.
C3_FileKeptUntilTransmitted ==
    \A j \in Downloads : cl[j].removed => req[j].transmitted

\* C4: two download jobs never share a temp file: the files they write, the
\* file they serve and the file whose deletion they schedule all differ.
C4_DistinctTempFiles ==
    \A j, k \in Downloads :
        j # k =>
            /\ (req[j].token # 0 /\ req[k].token # 0 => req[j].token # req[k].token)
            /\ req[j].written \cap req[k].written = {}
            /\ (req[j].served # NoPath => req[j].served # req[k].served)
            /\ (req[j].served # NoPath => req[j].served \notin req[k].written)
            /\ (cl[j].scheduled > 0 => cl[j].path # cl[k].path)
            /\ (cl[j].scheduled > 0 => cl[j].path \notin req[k].written)

\* Two downloads being transmitted at once, each with its own file and its
\* own sleeping cleanup thread.
C4_Witness ==
    \E j, k \in Requests :
        /\ j # k
        /\ req[j].pc = "sending" /\ req[k].pc = "sending"
        /\ req[j].served \in fs /\ req[k].served \in fs
        /\ cl[j].pc = "sleeping" /\ cl[k].pc = "sleeping"

\* C5: every download whose extraction succeeded has exactly one deletion
\* scheduled, and it is the deletion of the file the extraction produced.
C5_OneCleanupPerExtraction ==
    \A j \in Downloads :
        req[j].extracted => cl[j].scheduled = 1 /\ cl[j].path \in req[j].written

\* C6: the cleanup thread attempts a removal at most once and never retries;
\* a failed attempt logs one warning, ends the thread, and changes no
\* response; the thread's step after the sleep always ends it.
C6_CleanupFailureIgnored ==
    /\ [](\A j \in Requests : cl[j].attempts <= 1 /\ cl[j].warnings <= cl[j].attempts)
    /\ [][\A j \in Requests :
            /\ (cl[j].pc = "sleeping" /\ cl[j].remaining = 0 /\ cl'[j] # cl[j]
                    => cl'[j].pc = "done")
            /\ (cl'[j].attempts > cl[j].attempts /\ ~cl'[j].removed
                    => /\ cl'[j].warnings = cl[j].warnings + 1
                       /\ cl'[j].pc = "done"
                       /\ req' = req)
            /\ (cl[j].pc = "done" => cl'[j] = cl[j])]_vars

\* A removal that failed, with a warning, after the download was answered 200.
C6_Witness ==
    \E j \in Requests :
        /\ cl[j].pc = "done" /\ cl[j].attempts = 1 /\ cl[j].warnings = 1
        /\ ~cl[j].removed /\ req[j].status = 200 /\ cl[j].path \in fs

\* C7: the download name of a successful download holds none of the
\* characters <>:"/\|?*, and its title part is at most 100 characters.
C7_DownloadNameSanitized ==
    \A j \in Downloads :
        req[j].status = 200 =>
            \A i \in 1..Len(req[j].name) :
                req[j].name[i] \notin {"<", ">", ":", "\"", "/", "\\", "|", "?", "*"}

\* C8: get_available_formats returns one entry per distinct known height,
\* built from the first format of that height, in strictly descending order
\* of height; formats without a height are dropped and metadata without
\* 'formats' gives the empty sequence.
KnownHeights == {fin.formats[i].height : i \in 1..Len(fin.formats)} \ {None, 0}
FirstIndex(h) ==
    CHOOSE i \in 1..Len(fin.formats) :
        /\ fin.formats[i].height = h
        /\ \A m \in 1..(i - 1) : fin.formats[m].height # h
Label(h) ==
    IF h = 144 THEN <<"1", "4", "4", "p">>
    ELSE IF h = 720 THEN <<"7", "2", "0", "p">>
    ELSE <<"1", "0", "8", "0", "p">>

C8_FormatsUniqueDescending ==
    fpc = "done" =>
        /\ (~fin.hasFormats => fout = <<>>)
        /\ Len(fout) = Cardinality(KnownHeights)
        /\ \A k \in 1..Len(fout) :
            \E h \in KnownHeights :
                /\ fout[k].quality = Label(h)
                /\ fout[k].format_note = fin.formats[FirstIndex(h)].format_note
                /\ fout[k].ext = fin.formats[FirstIndex(h)].ext
                /\ fout[k].filesize = fin.formats[FirstIndex(h)].filesize
                /\ (k < Len(fout) =>
                        \E g \in KnownHeights : g < h /\ fout[k + 1].quality = Label(g))

\* Heights [144, 720, 720, 1080], the two 720 formats with different notes:
\* the result is [1080p, 720p, 144p] with the first 720 format's note.
C8_Witness ==
    /\ fpc = "done"
    /\ fin.formats = <<Fmt(144, "a"), Fmt(720, "a"), Fmt(720, "b"), Fmt(1080, "b")>>
    /\ Len(fout) = 3
    /\ fout[1].quality = Label(1080)
    /\ fout[2].quality = Label(720) /\ fout[2].format_note = "a"
    /\ fout[3].quality = Label(144)

\* C9 as stated: the selector handed to extract_info is best-audio for
\* "audio", height-bounded for "360", "720", "1080", and the combined
\* expression for any other token and for a request without a quality.
C9_SelectorAsStated ==
    \A j \in Downloads :
        req[j].calls >= 1 =>
            LET data == req[j].body IN
            IF "quality" \notin data.keys THEN req[j].selector = "bestvideo+bestaudio/best"
            ELSE IF data.quality = <<"a", "u", "d", "i", "o">>
                 THEN req[j].selector = "bestaudio/best"
            ELSE IF data.quality = <<"3", "6", "0">>
                 THEN req[j].selector = "best[height<=360]/best"
            ELSE IF data.quality = <<"7", "2", "0">>
                 THEN req[j].selector = "best[height<=720]/best"
            ELSE IF data.quality = <<"1", "0", "8", "0">>
                 THEN req[j].selector = "best[height<=1080]/best"
            ELSE req[j].selector = "bestvideo+bestaudio/best"

\* C9 amended: as above, but a request without a quality is treated as
\* quality "720" and gets the expression bounded by height 720.
C9_SelectorDefault720 ==
    \A j \in Downloads :
        req[j].calls >= 1 =>
            LET data == req[j].body IN
            IF "quality" \notin data.keys THEN req[j].selector = "best[height<=720]/best"
            ELSE IF data.quality = <<"a", "u", "d", "i", "o">>
                 THEN req[j].selector = "bestaudio/best"
            ELSE IF data.quality = <<"3", "6", "0">>
                 THEN req[j].selector = "best[height<=360]/best"
            ELSE IF data.quality = <<"7", "2", "0">>
                 THEN req[j].selector = "best[height<=720]/best"
            ELSE IF data.quality = <<"1", "0", "8", "0">>
                 THEN req[j].selector = "best[height<=1080]/best"
            ELSE req[j].selector = "bestvideo+bestaudio/best"

\* A download without a quality and one with an unrecognised token, both
\* past extract_info.
C9_Witness ==
    \E j, k \in Requests :
        /\ req[j].endpoint = "download" /\ req[j].calls = 1
        /\ "quality" \notin req[j].body.keys
        /\ req[j].selector = "best[height<=720]/best"
        /\ req[k].endpoint = "download" /\ req[k].calls = 1
        /\ req[k].body.quality = QOther
        /\ req[k].selector = "bestvideo+bestaudio/best"

\* C10: every file a finished download job left in the download directory
\* has its deletion scheduled.
C10_NoFileWithoutCleanup ==
    \A j \in Downloads :
        req[j].pc = "done" =>
            \A f \in req[j].written \cap fs : cl[j].scheduled >= 1 /\ cl[j].path = f

====
